---- MODULE Spec2Model ----
(***************************************************************************)
(* Worker lifecycle supervisor of blaude.                                  *)
(*                                                                         *)
(* Two implementations of the same registry live in the repository:        *)
(*   - Runner (runner.py): a caller thread (run / kill_worker /            *)
(*     cleanup_completed) and one daemon thread that sweeps the registry   *)
(*     (_check_worker_statuses) share self.workers without any lock;       *)
(*   - WorkerManager (blaude-minimal.py): a caller thread and one watcher  *)
(*     thread per spawned worker (_monitor_worker).                        *)
(* impl says which of the two programs a behaviour is a run of.            *)
(*                                                                         *)
(* A worker record is a Python dict: a heap object.  rec[s] is the object  *)
(* created by the s-th successful name check (s stands for its uuid        *)
(* session_id), workers[n] is the object the registry holds under name n   *)
(* (0: none).  A thread that keeps a reference to a dict that was removed  *)
(* from the registry still writes to that dict.                            *)
(***************************************************************************)
EXTENDS Integers, Sequences, FiniteSets, TLC

\* ------------------------------------------------------------- bounds
MaxSpawns == 2
\* supervising processes started one after another on the same host
MaxBoots == 2
\* lines of a transcript
MaxLines == 3

\* Long transcripts are made of four blocks of lines: plain lines, lines
\* with a time stamp, blank lines, plain lines.  The most lines of each
\* block:
MaxHead == 6
MaxStamps == 21
MaxBlank == 2
MaxTail == 6

\* ------------------------------------------------------------- program constants
\* Runner._extract_summary: result[:300], lines[-20:], meaningful_lines[-5:],
\* [:200]; Notifier._format_completion_message: clean_summary[:500]
ResultMax == 300
FallbackWindow == 20
FallbackKeep == 5
FallbackMax == 200
CleanMax == 500

Names == {"t1", "t2"}
Targets == {"main", "ops"}
\* the --notify target each caller passes with a name
TargetOf == [n \in Names |-> IF n = "t1" THEN "main" ELSE "ops"]
Sids == 1..MaxSpawns
Impls == {"runner", "minimal"}

Terminal == {"completed", "killed", "dead"}

VARIABLES
    impl,        \* which program runs: "runner" | "minimal"
    storage,     \* the directory of the registry file: "writable" | "flaky"
    workers,     \* self.workers: name -> session id of the record held, 0 if none
    order,       \* insertion order of the keys of self.workers
    rec,         \* the record objects, by session id
    procs,       \* OS process table: pid -> "none" | "alive" | "gone"
    sigterms,    \* pid -> number of SIGTERMs delivered to its process group
    file,        \* content of the persisted registry file: name -> record
    notified,    \* session id -> targets of the completion notifications dispatched
    lastSend,    \* what the last _send_openclaw_message returned: "none" | "sent" | "failed"
    nextSid,     \* session ids handed out so far
    mpc,         \* caller thread: position
    margs,       \* caller thread: arguments and locals of the running operation
    to_remove,   \* caller thread: cleanup's to_remove list (what is left of it)
    ret,         \* caller thread: what the last operation returned
    spc,         \* Runner's monitor thread: position
    squeue,      \* Runner's monitor thread: rest of list(self.workers.items())
    updated,     \* Runner's monitor thread: the local flag of the sweep pass
    wpc,         \* WorkerManager's watcher threads: session id -> position
    wref,        \* WorkerManager's watcher threads: the record _handle_completion holds
    examined,    \* history: records a sweep or watcher has looked at with the process gone
    exitSeen,    \* history: records whose process exit a sweep or watcher has observed
    killSeen,    \* history: records a kill has attempted to signal
    killedFirst, \* history: records kill set to killed before any exit observation
    scanned,     \* history: the registry as the running cleanup found it
    seenAlive,   \* history: running records whose process the monitor has found alive
    first,       \* history: what the first of two cleanup calls in a row left behind
    boots,       \* supervising processes started so far on this host
    foreign,     \* pids the supervising process is not permitted to signal
    log_file,    \* the transcript a worker left: state of the file and its lines
    summary,     \* what Runner._extract_summary returned for log_file
    clean_summary, \* the summary text Notifier._format_completion_message places
    xpc,         \* position of the summarize-then-format pipeline on log_file
    registry_file, \* the registry file as one run of the command line finds it
    cli_workers, \* self.workers of the Runner that run of the command line builds
    cli          \* that run: its command, its position, what it got, its exit code

vars == <<impl, storage, workers, order, rec, procs, sigterms, file, notified, lastSend, nextSid,
          mpc, margs, to_remove, ret, spc, squeue, updated, wpc, wref,
          examined, exitSeen, killSeen, killedFirst, scanned, seenAlive, first,
          boots, foreign, log_file, summary, clean_summary, xpc, registry_file, cli_workers, cli>>

cliVars == <<registry_file, cli_workers, cli>>
sumVars == <<log_file, summary, clean_summary, xpc>>
lifeVars == <<impl, storage, workers, order, rec, procs, sigterms, file, notified, lastSend, nextSid,
              mpc, margs, to_remove, ret, spc, squeue, updated, wpc, wref,
              examined, exitSeen, killSeen, killedFirst, scanned, seenAlive, first,
              boots, foreign>>
envVars == <<impl, storage, first, boots, foreign>>
regVars == <<workers, order, rec>>
osVars == <<procs, sigterms>>
sweepVars == <<spc, squeue, updated>>
watchVars == <<wpc, wref>>
histVars == <<examined, exitSeen, killSeen, killedFirst, scanned, seenAlive>>

\* ------------------------------------------------------------- records
\* No record.  The fields of a record: the values written once at the spawn
\* (the prompt stands for what the caller passed with the name, log_file
\* for the path built from the name and the session, start_time for the
\* clock at the spawn), then status and end_time.
NoRec ==
    [name |-> "", session_id |-> 0, pid |-> 0, status |-> "absent",
     end_time |-> FALSE, notify_target |-> "", background |-> FALSE,
     model |-> "", budget |-> 0, prompt |-> "", log_file |-> 0, start_time |-> 0]

NoArgs ==
    [op |-> "none", name |-> "", background |-> FALSE, target |-> "",
     sid |-> 0, sigok |-> FALSE, count |-> 0]

\* What the caller got from the last operation: the value returned, or raised
\* when the operation ended with an exception.
NoRet == [op |-> "none", name |-> "", value |-> FALSE, count |-> 0, raised |-> FALSE]

\* history: no cleanup is running
NoScan == [all |-> {}, terminal |-> {}]

\* history: no cleanup has been called right after another
NoFirst ==
    [calls |-> 0, count |-> 0, workers |-> [n \in Names |-> 0], order |-> <<>>,
     rec |-> [s \in Sids |-> NoRec], file |-> [n \in Names |-> NoRec]]

\* history: the records the registry holds, and those of them whose status
\* is terminal
ScanNow ==
    [all |-> {workers[n] : n \in {m \in Names : workers[m] # 0}},
     terminal |-> {workers[n] : n \in {m \in Names : workers[m] # 0
                                                    /\ rec[workers[m]].status \in Terminal}}]

NewRecord_noPid(n, s, bg, t) ==
    [name |-> n, session_id |-> s, pid |-> 0,
     status |-> IF bg THEN "running" ELSE "completed",
     end_time |-> FALSE, notify_target |-> t, background |-> bg,
     model |-> "haiku", budget |-> 2, prompt |-> n, log_file |-> s, start_time |-> s]

NewRecord(n, s, bg, t) ==
    [name |-> n, session_id |-> s, pid |-> IF bg THEN s ELSE 0,
     status |-> IF bg THEN "running" ELSE "completed",
     end_time |-> FALSE, notify_target |-> t, background |-> bg,
     model |-> "haiku", budget |-> 2, prompt |-> n, log_file |-> s, start_time |-> s]

\* json.dump(self.workers): the registry as it is at this instant
Snapshot == [n \in Names |-> IF workers[n] = 0 THEN NoRec ELSE rec[workers[n]]]

RemoveName(seq, n) == SelectSeq(seq, LAMBDA x : x # n)

\* no transcript is being summarised
NoLog == [state |-> "missing", lines |-> <<>>]

NoSummary == [type |-> "none", text |-> <<>>, size |-> 0]

\* ------------------------------------------------------------- initial state
\* The registry, the threads and the OS after the constructor.
BaseInit ==
    /\ impl \in Impls
    /\ workers = [n \in Names |-> 0]
    /\ order = <<>>
    /\ rec = [s \in Sids |-> NoRec]
    /\ procs = [p \in Sids |-> "none"]
    /\ sigterms = [p \in Sids |-> 0]
    /\ file = [n \in Names |-> NoRec]
    /\ notified = [s \in Sids |-> <<>>]
    /\ lastSend = "none"
    /\ mpc = "idle"
    /\ margs = NoArgs
    /\ to_remove = <<>>
    /\ spc = "start"
    /\ squeue = <<>>
    /\ updated = FALSE
    /\ wpc = [s \in Sids |-> "none"]
    /\ wref = [s \in Sids |-> 0]
    /\ examined = {}
    /\ exitSeen = {}
    /\ killSeen = {}
    /\ killedFirst = {}
    /\ scanned = NoScan
    /\ seenAlive = {}
    /\ first = NoFirst
    /\ boots = 1
    /\ foreign = {}

LifeInit ==
    /\ BaseInit
    /\ storage = "writable"
    /\ nextSid = 0
    /\ ret = NoRet

\* ------------------------------------------------------------- the caller
\* The caller thread returns from the running operation.
Return(v, c) ==
    /\ mpc' = "idle"
    /\ ret' = [op |-> margs.op, name |-> margs.name, value |-> v, count |-> c,
               raised |-> FALSE]
    /\ margs' = NoArgs

\* An exception leaves the running operation and reaches the caller.
Raise ==
    /\ mpc' = "idle"
    /\ ret' = [op |-> margs.op, name |-> margs.name, value |-> FALSE, count |-> 0,
               raised |-> TRUE]
    /\ margs' = NoArgs

\* open(self.workers_file, 'w') and json.dump succeed (TRUE) or raise.
SaveOutcomes == IF storage = "writable" THEN {TRUE} ELSE BOOLEAN

\* The registry file after save_workers: the registry as it is now, or
\* what the file held when the file could not be opened for writing.
Written(ok) == IF ok THEN Snapshot ELSE file

\* A caller invokes spawn(name, ..., notify_target, background).
Call_run(n, bg) ==
    /\ mpc = "idle"
    /\ workers[n] # 0 \/ nextSid < MaxSpawns
    /\ impl = "minimal" => bg
    /\ mpc' = "run_check"
    /\ margs' = [NoArgs EXCEPT !.op = "run", !.name = n, !.background = bg,
                               !.target = TargetOf[n]]
    /\ ret' = NoRet
    /\ UNCHANGED <<sumVars, cliVars, envVars, regVars, osVars, file, notified, lastSend, nextSid, to_remove,
                   sweepVars, watchVars, histVars>>

Call_kill(n) ==
    /\ mpc = "idle"
    /\ mpc' = "kill_check"
    /\ margs' = [NoArgs EXCEPT !.op = "kill", !.name = n]
    /\ ret' = NoRet
    /\ UNCHANGED <<sumVars, cliVars, envVars, regVars, osVars, file, notified, lastSend, nextSid, to_remove,
                   sweepVars, watchVars, histVars>>

Call_cleanup ==
    /\ mpc = "idle"
    /\ mpc' = "cleanup_scan"
    /\ margs' = [NoArgs EXCEPT !.op = "cleanup"]
    /\ ret' = NoRet
    /\ UNCHANGED <<sumVars, cliVars, envVars, regVars, osVars, file, notified, lastSend, nextSid, to_remove,
                   sweepVars, watchVars, histVars>>

\* BlaudeTUI.action_cleanup run again right after a cleanup has returned:
\* the same call, with what the first one left kept as history.
Call_cleanup_again ==
    /\ mpc = "idle"
    /\ ret.op = "cleanup" /\ ~ret.raised
    /\ first.calls = 0
    /\ first' = [calls |-> 1, count |-> ret.count, workers |-> workers, order |-> order,
                 rec |-> rec, file |-> file]
    /\ mpc' = "cleanup_scan"
    /\ margs' = [NoArgs EXCEPT !.op = "cleanup"]
    /\ ret' = NoRet
    /\ UNCHANGED <<sumVars, cliVars, impl, storage, boots, foreign, regVars, osVars, file, notified,
                   lastSend, nextSid, to_remove, sweepVars, watchVars, histVars>>

Call_list ==
    /\ mpc = "idle"
    /\ mpc' = "list"
    /\ margs' = [NoArgs EXCEPT !.op = "list"]
    /\ ret' = NoRet
    /\ UNCHANGED <<sumVars, cliVars, envVars, regVars, osVars, file, notified, lastSend, nextSid, to_remove,
                   sweepVars, watchVars, histVars>>

\* ------------------------------------------------------------- the OS
\* The agent process of a worker exits (on its own, or after a SIGTERM).
Proc_exit(p) ==
    /\ procs[p] = "alive"
    /\ procs' = [procs EXCEPT ![p] = "gone"]
    /\ UNCHANGED <<sumVars, cliVars, envVars, regVars, sigterms, file, notified, lastSend, nextSid, mpc, margs,
                   to_remove, ret, sweepVars, watchVars, histVars>>

\* ------------------------------------------------------------- Runner
\* Runner._handle_completion(name): looks the record up by name, then
\* summarises its log and dispatches one completion notification.
HandleCompletion(n) ==
    IF workers[n] = 0
    THEN notified
    ELSE [notified EXCEPT ![workers[n]] = Append(@, rec[workers[n]].notify_target)]

\* What Runner._extract_summary hands to the notifier: a str, or the list
\* or dict of a result field that is a JSON array or object (line 270
\* returns it as it is).
SummaryKinds == {"text", "nontext"}

\* Notifier._format_completion_message, line 59: summary.strip() raises
\* AttributeError when the summary is a list or a dict.
FormatRaises(k) == k = "nontext"

\* How the openclaw command ends: exit code 0, another exit code, no end
\* within the timeout, or it could not be started.
SendOutcomes == {"ok", "nonzero", "timeout", "oserror"}

\* Notifier._send_openclaw_message, lines 87-99: True for exit code 0,
\* False for everything else.
SendResult(o) == o = "ok"

\* Notifier._send_openclaw_message, lines 94-99: every exception of the
\* call is caught.
SendRaises_timeout(o) == o = "timeout"

SendRaises(o) == FALSE

SendStatus(o) == IF SendResult(o) THEN "sent" ELSE "failed"

\* "if name in self.workers" (runner.py line 83, blaude-minimal.py line 42)
DuplicateName_never(n) == FALSE

DuplicateName(n) == workers[n] # 0

\* Runner.run, lines 83-92: the duplicate check, the authentication check,
\* get_config (a fresh session id).
Runner_run_check ==
    /\ impl = "runner"
    /\ mpc = "run_check"
    /\ IF DuplicateName(margs.name)
       THEN Return(FALSE, 0) /\ UNCHANGED nextSid
       ELSE \E auth \in BOOLEAN :
              IF auth
              THEN /\ nextSid' = nextSid + 1
                   /\ margs' = [margs EXCEPT !.sid = nextSid + 1]
                   /\ mpc' = "run_launch"
                   /\ UNCHANGED ret
              ELSE Return(FALSE, 0) /\ UNCHANGED nextSid
    /\ UNCHANGED <<sumVars, cliVars, envVars, regVars, osVars, file, notified, lastSend, to_remove,
                   sweepVars, watchVars, histVars>>

\* Runner.run, lines 105-123: Popen in a new process group, or a blocking
\* subprocess.run; an exception or a non-zero exit returns False.
Runner_run_launch ==
    /\ impl = "runner"
    /\ mpc = "run_launch"
    /\ \E ok \in BOOLEAN :
         IF ok
         THEN /\ procs' = IF margs.background
                          THEN [procs EXCEPT ![margs.sid] = "alive"]
                          ELSE procs
              /\ mpc' = "run_store"
              /\ UNCHANGED <<margs, ret>>
         ELSE Return(FALSE, 0) /\ UNCHANGED procs
    /\ UNCHANGED <<sumVars, cliVars, envVars, regVars, sigterms, file, notified, lastSend, nextSid, to_remove,
                   sweepVars, watchVars, histVars>>

\* Runner.run, lines 126-137: self.workers[name] = {...}
Runner_run_store ==
    /\ impl = "runner"
    /\ mpc = "run_store"
    /\ workers' = [workers EXCEPT ![margs.name] = margs.sid]
    /\ order' = IF workers[margs.name] # 0 THEN order ELSE Append(order, margs.name)
    /\ rec' = [rec EXCEPT ![margs.sid] =
                 NewRecord(margs.name, margs.sid, margs.background, margs.target)]
    /\ mpc' = "run_save"
    /\ UNCHANGED <<sumVars, cliVars, envVars, osVars, file, notified, lastSend, nextSid, margs, to_remove, ret,
                   sweepVars, watchVars, histVars>>

\* Runner.run, lines 139-147: save_workers; a background spawn returns True.
Runner_run_save ==
    /\ impl = "runner"
    /\ mpc = "run_save"
    /\ \E ok \in SaveOutcomes : file' = Written(ok)
    /\ IF margs.background
       THEN Return(TRUE, 0)
       ELSE mpc' = "run_complete" /\ UNCHANGED <<margs, ret>>
    /\ UNCHANGED <<sumVars, cliVars, envVars, regVars, osVars, notified, lastSend, nextSid, to_remove,
                   sweepVars, watchVars, histVars>>

\* Runner.run, lines 143-151: the synchronous path runs the pipeline inline;
\* an exception of the pipeline lands in the except of line 149.
Runner_run_complete ==
    /\ impl = "runner"
    /\ mpc = "run_complete"
    /\ \E k \in SummaryKinds, o \in SendOutcomes :
         IF workers[margs.name] = 0
         THEN Return(TRUE, 0) /\ UNCHANGED <<notified, lastSend>>
         ELSE IF FormatRaises(k)
              THEN Return(FALSE, 0) /\ UNCHANGED <<notified, lastSend>>
              ELSE /\ notified' = HandleCompletion(margs.name)
                   /\ lastSend' = SendStatus(o)
                   /\ Return(~SendRaises(o), 0)
    /\ UNCHANGED <<sumVars, cliVars, envVars, regVars, osVars, file, nextSid, to_remove,
                   sweepVars, watchVars, histVars>>

\* Runner.kill_worker, line 160: not running, or no pid.
NotRunning_pidOnly(s) == rec[s].pid = 0

NotRunning(s) == rec[s].status # "running" \/ rec[s].pid = 0

\* Runner.kill_worker, lines 155-162: unknown name, or not running / no pid.
Runner_kill_worker_check ==
    /\ impl = "runner"
    /\ mpc = "kill_check"
    /\ IF workers[margs.name] = 0
       THEN Return(FALSE, 0)
       ELSE IF NotRunning(workers[margs.name])
            THEN Return(FALSE, 0)
            ELSE /\ margs' = [margs EXCEPT !.sid = workers[margs.name]]
                 /\ mpc' = "kill_signal"
                 /\ UNCHANGED ret
    /\ UNCHANGED <<sumVars, cliVars, envVars, regVars, osVars, file, notified, lastSend, nextSid, to_remove,
                   sweepVars, watchVars, histVars>>

\* kill(2) and killpg(2) reach a process that exists and that the caller
\* is permitted to signal; otherwise they raise ProcessLookupError (no such
\* process) or PermissionError (a process of another user), both OSError.
Signalled(p) == procs[p] = "alive" /\ p \notin foreign

\* os.killpg(worker["pid"], signal.SIGTERM): delivered to a live process
\* group, an OSError otherwise.
Killpg(p) == IF Signalled(p) THEN [sigterms EXCEPT ![p] = @ + 1] ELSE sigterms

\* Runner.kill_worker, line 165.
Runner_kill_worker_signal ==
    /\ impl = "runner"
    /\ mpc = "kill_signal"
    /\ sigterms' = Killpg(rec[margs.sid].pid)
    /\ margs' = [margs EXCEPT !.sigok = Signalled(rec[margs.sid].pid)]
    /\ killSeen' = killSeen \cup {margs.sid}
    /\ mpc' = "kill_mark"
    /\ UNCHANGED <<sumVars, cliVars, envVars, regVars, procs, file, notified, lastSend, nextSid, to_remove, ret,
                   sweepVars, watchVars, examined, exitSeen, killedFirst, scanned, seenAlive>>

\* kill_worker leaving the status it found
KillStatus_running(sigok) == "running"

\* The status kill_worker writes: line 166 after a delivered signal, line
\* 172 in the except branch.
KillStatus(sigok) == IF sigok THEN "killed" ELSE "dead"

\* Runner.kill_worker, lines 166 / 172: worker["status"] = ...
Runner_kill_worker_mark ==
    /\ impl = "runner"
    /\ mpc = "kill_mark"
    /\ rec' = [rec EXCEPT ![margs.sid].status = KillStatus(margs.sigok)]
    /\ killedFirst' = IF margs.sigok /\ margs.sid \notin exitSeen
                      THEN killedFirst \cup {margs.sid}
                      ELSE killedFirst
    /\ seenAlive' = seenAlive \ {margs.sid}
    /\ mpc' = "kill_time"
    /\ UNCHANGED <<sumVars, cliVars, envVars, workers, order, osVars, file, notified, lastSend, nextSid, margs,
                   to_remove, ret, sweepVars, watchVars, examined, exitSeen, killSeen, scanned>>

\* Runner.kill_worker, lines 167 / 173, also forgetting the pid
Runner_kill_worker_time_dropPid ==
    /\ impl = "runner"
    /\ mpc = "kill_time"
    /\ rec' = [rec EXCEPT ![margs.sid].end_time = TRUE, ![margs.sid].pid = 0]
    /\ mpc' = "kill_save"
    /\ UNCHANGED <<sumVars, cliVars, envVars, workers, order, osVars, file, notified, lastSend, nextSid, margs,
                   to_remove, ret, sweepVars, watchVars, histVars>>

\* Runner.kill_worker, lines 167 / 173: worker["end_time"] = time.time()
Runner_kill_worker_time ==
    /\ impl = "runner"
    /\ mpc = "kill_time"
    /\ rec' = [rec EXCEPT ![margs.sid].end_time = TRUE]
    /\ mpc' = "kill_save"
    /\ UNCHANGED <<sumVars, cliVars, envVars, workers, order, osVars, file, notified, lastSend, nextSid, margs,
                   to_remove, ret, sweepVars, watchVars, histVars>>

\* Runner.kill_worker, lines 168-170 / 174-176: save_workers, return True.
Runner_kill_worker_save ==
    /\ impl = "runner"
    /\ mpc = "kill_save"
    /\ \E ok \in SaveOutcomes : file' = Written(ok)
    /\ Return(TRUE, 0)
    /\ UNCHANGED <<sumVars, cliVars, envVars, regVars, osVars, notified, lastSend, nextSid, to_remove,
                   sweepVars, watchVars, histVars>>

\* cleanup's filter: the names, in registry order, whose status is terminal.
ToRemove == SelectSeq(order, LAMBDA n : rec[workers[n]].status \in Terminal)

\* Runner.cleanup_completed, lines 195-196.
Runner_cleanup_completed_scan ==
    /\ impl = "runner"
    /\ mpc = "cleanup_scan"
    /\ to_remove' = ToRemove
    /\ margs' = [margs EXCEPT !.count = Len(ToRemove)]
    /\ mpc' = "cleanup_del"
    /\ scanned' = ScanNow
    /\ UNCHANGED <<sumVars, cliVars, envVars, regVars, osVars, file, notified, lastSend, nextSid, ret,
                   sweepVars, watchVars, examined, exitSeen, killSeen, killedFirst, seenAlive>>

\* Runner.cleanup_completed, lines 198-199, walking the list without
\* deleting
Runner_cleanup_completed_del_keep ==
    /\ impl = "runner"
    /\ mpc = "cleanup_del"
    /\ IF to_remove = <<>>
       THEN mpc' = "cleanup_save" /\ UNCHANGED <<workers, order, to_remove>>
       ELSE /\ to_remove' = Tail(to_remove)
            /\ UNCHANGED <<workers, order, mpc>>
    /\ UNCHANGED <<sumVars, cliVars, envVars, rec, osVars, file, notified, lastSend, nextSid, margs, ret,
                   sweepVars, watchVars, histVars>>

\* Runner.cleanup_completed, lines 198-199: del self.workers[name], one
\* name per step.
Runner_cleanup_completed_del ==
    /\ impl = "runner"
    /\ mpc = "cleanup_del"
    /\ IF to_remove = <<>>
       THEN mpc' = "cleanup_save" /\ UNCHANGED <<workers, order, to_remove>>
       ELSE /\ workers' = [workers EXCEPT ![Head(to_remove)] = 0]
            /\ order' = RemoveName(order, Head(to_remove))
            /\ to_remove' = Tail(to_remove)
            /\ UNCHANGED mpc
    /\ UNCHANGED <<sumVars, cliVars, envVars, rec, osVars, file, notified, lastSend, nextSid, margs, ret,
                   sweepVars, watchVars, histVars>>

\* Runner.cleanup_completed, lines 201-205: save only when something was
\* removed; return len(to_remove).
Runner_cleanup_completed_save ==
    /\ impl = "runner"
    /\ mpc = "cleanup_save"
    /\ \E ok \in SaveOutcomes : file' = IF margs.count > 0 THEN Written(ok) ELSE file
    /\ Return(TRUE, margs.count)
    /\ scanned' = NoScan
    /\ UNCHANGED <<sumVars, cliVars, envVars, regVars, osVars, notified, lastSend, nextSid, to_remove,
                   sweepVars, watchVars, examined, exitSeen, killSeen, killedFirst, seenAlive>>

\* Runner.list_workers, lines 178-191: one entry per record, from its
\* status, model, start_time, pid and notify_target.
Runner_list_workers ==
    /\ impl = "runner"
    /\ mpc = "list"
    /\ Return(TRUE, Len(order))
    /\ UNCHANGED <<sumVars, cliVars, envVars, regVars, osVars, file, notified, lastSend, nextSid, to_remove,
                   sweepVars, watchVars, histVars>>

\* ------------------------------------------------------------- Runner's sweep
\* Runner._check_worker_statuses, lines 219-220: updated = False and the
\* snapshot list(self.workers.items()): (name, dict) pairs.
Runner_check_worker_statuses_begin ==
    /\ impl = "runner"
    /\ spc = "start"
    /\ updated' = FALSE
    /\ squeue' = [i \in 1..Len(order) |-> <<order[i], workers[order[i]]>>]
    /\ spc' = "check"
    /\ UNCHANGED <<sumVars, cliVars, envVars, regVars, osVars, file, notified, lastSend, nextSid, mpc, margs,
                   to_remove, ret, watchVars, histVars>>

\* history: {s} when the process of record s has exited, {} otherwise
Gone(s) == IF rec[s].pid # 0 /\ procs[rec[s].pid] = "gone" THEN {s} ELSE {}

\* The guard of the sweep, line 221, on the dict the snapshot holds.
SweepGuard(s) == rec[s].status = "running" /\ rec[s].pid # 0

\* Runner._check_worker_statuses, line 221 (and the end of the for loop).
Runner_check_worker_statuses_check ==
    /\ impl = "runner"
    /\ spc = "check"
    /\ IF squeue = <<>>
       THEN spc' = "save" /\ UNCHANGED <<squeue, examined>>
       ELSE /\ IF SweepGuard(Head(squeue)[2])
               THEN spc' = "probe" /\ UNCHANGED squeue
               ELSE squeue' = Tail(squeue) /\ UNCHANGED spc
            /\ examined' = examined \cup Gone(Head(squeue)[2])
    /\ UNCHANGED <<sumVars, cliVars, envVars, regVars, osVars, file, notified, lastSend, nextSid, mpc, margs,
                   to_remove, ret, updated, watchVars, exitSeen, killSeen, killedFirst, scanned, seenAlive>>

\* os.kill(pid, 0) in try / except (OSError, ProcessLookupError): the except
\* branch is taken when no such process exists and when the process exists
\* but may not be signalled by this user (PermissionError is an OSError).
ProbeRaises(p) == ~Signalled(p)

\* Runner._check_worker_statuses, lines 222-224.
Runner_check_worker_statuses_probe ==
    /\ impl = "runner"
    /\ spc = "probe"
    /\ IF ProbeRaises(rec[Head(squeue)[2]].pid)
       THEN /\ spc' = "mark"
            /\ exitSeen' = exitSeen \cup {Head(squeue)[2]}
            /\ examined' = examined \cup {Head(squeue)[2]}
            /\ UNCHANGED squeue
       ELSE /\ spc' = "check"
            /\ squeue' = Tail(squeue)
            /\ UNCHANGED <<exitSeen, examined>>
    /\ seenAlive' = IF ProbeRaises(rec[Head(squeue)[2]].pid)
                    THEN seenAlive
                    ELSE seenAlive \cup {Head(squeue)[2]}
    /\ UNCHANGED <<sumVars, cliVars, envVars, regVars, osVars, file, notified, lastSend, nextSid, mpc, margs,
                   to_remove, ret, updated, watchVars, killSeen, killedFirst, scanned>>

\* Runner._check_worker_statuses, line 226: worker["status"] = "completed"
Runner_check_worker_statuses_mark ==
    /\ impl = "runner"
    /\ spc = "mark"
    /\ rec' = [rec EXCEPT ![Head(squeue)[2]].status = "completed"]
    /\ spc' = "time"
    /\ seenAlive' = seenAlive \ {Head(squeue)[2]}
    /\ UNCHANGED <<sumVars, cliVars, envVars, workers, order, osVars, file, notified, lastSend, nextSid, mpc, margs,
                   to_remove, ret, squeue, updated, watchVars, examined, exitSeen, killSeen,
                   killedFirst, scanned>>

\* Runner._check_worker_statuses, lines 227-228: end_time, updated = True
Runner_check_worker_statuses_time ==
    /\ impl = "runner"
    /\ spc = "time"
    /\ rec' = [rec EXCEPT ![Head(squeue)[2]].end_time = TRUE]
    /\ updated' = TRUE
    /\ spc' = "handle"
    /\ UNCHANGED <<sumVars, cliVars, envVars, workers, order, osVars, file, notified, lastSend, nextSid, mpc, margs,
                   to_remove, ret, squeue, watchVars, histVars>>

\* Runner._check_worker_statuses, line 229: self._handle_completion(name).
\* Nothing between the pipeline and monitor_loop catches an exception: it
\* ends the monitor thread.
Runner_check_worker_statuses_handle ==
    /\ impl = "runner"
    /\ spc = "handle"
    /\ \E k \in SummaryKinds, o \in SendOutcomes :
         IF workers[Head(squeue)[1]] = 0
         THEN /\ squeue' = Tail(squeue)
              /\ spc' = "check"
              /\ UNCHANGED <<notified, lastSend>>
         ELSE IF FormatRaises(k)
              THEN /\ spc' = "crashed"
                   /\ UNCHANGED <<notified, lastSend, squeue>>
              ELSE /\ notified' = HandleCompletion(Head(squeue)[1])
                   /\ lastSend' = SendStatus(o)
                   /\ IF SendRaises(o)
                      THEN spc' = "crashed" /\ UNCHANGED squeue
                      ELSE spc' = "check" /\ squeue' = Tail(squeue)
    /\ UNCHANGED <<sumVars, cliVars, envVars, regVars, osVars, file, nextSid, mpc, margs,
                   to_remove, ret, updated, watchVars, histVars>>

\* Runner._check_worker_statuses, lines 231-232, then the sleep of
\* monitor_loop.
Runner_check_worker_statuses_save ==
    /\ impl = "runner"
    /\ spc = "save"
    /\ \E ok \in SaveOutcomes : file' = IF updated THEN Written(ok) ELSE file
    /\ spc' = "start"
    /\ UNCHANGED <<sumVars, cliVars, envVars, regVars, osVars, notified, lastSend, nextSid, mpc, margs,
                   to_remove, ret, squeue, updated, watchVars, histVars>>

\* ------------------------------------------------------------- the host
\* json.load of the registry file: the record the file holds for session s.
FileRecord(s) ==
    IF \E n \in Names : file[n].session_id = s
    THEN file[CHOOSE n \in Names : file[n].session_id = s]
    ELSE NoRec

\* The keys of the loaded dict, in the order json.dump wrote them: the
\* insertion order of the registry that was saved, which is the order in
\* which the sessions were started.
RECURSIVE FileOrder(_)
FileOrder(S) ==
    IF S = {} THEN <<>>
    ELSE LET n == CHOOSE x \in S : \A y \in S : file[x].session_id <= file[y].session_id
         IN  <<n>> \o FileOrder(S \ {n})

\* The supervising process stops, at any point of any thread, and a new one
\* is started: Runner.__init__, lines 18-25, with load_workers, lines 27-35.
\* The registry of the new process is what the file holds; the agent
\* processes, started in sessions of their own, live on.  The new process
\* may run under another account than the one that launched them.
Runner_init ==
    /\ impl = "runner"
    /\ boots < MaxBoots
    /\ boots' = boots + 1
    /\ workers' = [n \in Names |-> file[n].session_id]
    /\ rec' = [s \in Sids |-> FileRecord(s)]
    /\ order' = FileOrder({n \in Names : file[n].session_id # 0})
    /\ \E other \in BOOLEAN :
         foreign' = IF other THEN {p \in Sids : procs[p] # "none"} ELSE {}
    /\ mpc' = "idle"
    /\ margs' = NoArgs
    /\ to_remove' = <<>>
    /\ ret' = NoRet
    /\ spc' = "start"
    /\ squeue' = <<>>
    /\ updated' = FALSE
    /\ scanned' = NoScan
    /\ seenAlive' = {}
    /\ UNCHANGED <<sumVars, cliVars, impl, storage, first, osVars, file, notified, lastSend, nextSid,
                   watchVars, examined, exitSeen, killSeen, killedFirst>>

\* check-completion.py, lines 21-33: a running record whose probe raised
\* gets status completed and an end_time.
Fixed(r) ==
    IF r.status = "running" /\ ~Signalled(r.pid)
    THEN [r EXCEPT !.status = "completed", !.end_time = TRUE]
    ELSE r

\* check-completion.py, check_and_fix_workers, lines 12-47, run as a
\* process of its own next to the supervisor: it loads the file, fixes the
\* records and writes the file when it changed one.
Check_and_fix_workers ==
    /\ impl = "runner"
    /\ file' = [n \in Names |-> Fixed(file[n])]
    /\ file' # file
    /\ UNCHANGED <<sumVars, cliVars, envVars, regVars, osVars, notified, lastSend, nextSid, mpc, margs,
                   to_remove, ret, sweepVars, watchVars, histVars>>

\* ------------------------------------------------------------- WorkerManager
\* WorkerManager.spawn_worker, lines 42-58: the duplicate check, a fresh
\* session id.
WorkerManager_spawn_worker_check ==
    /\ impl = "minimal"
    /\ mpc = "run_check"
    /\ IF DuplicateName(margs.name)
       THEN Return(FALSE, 0) /\ UNCHANGED nextSid
       ELSE /\ nextSid' = nextSid + 1
            /\ margs' = [margs EXCEPT !.sid = nextSid + 1]
            /\ mpc' = "run_launch"
            /\ UNCHANGED ret
    /\ UNCHANGED <<sumVars, cliVars, envVars, regVars, osVars, file, notified, lastSend, to_remove,
                   sweepVars, watchVars, histVars>>

\* WorkerManager.spawn_worker, lines 62-67 (Popen) and 93-95 (it raised).
WorkerManager_spawn_worker_launch ==
    /\ impl = "minimal"
    /\ mpc = "run_launch"
    /\ \E ok \in BOOLEAN :
         IF ok
         THEN /\ procs' = [procs EXCEPT ![margs.sid] = "alive"]
              /\ mpc' = "run_store"
              /\ UNCHANGED <<margs, ret>>
         ELSE Return(FALSE, 0) /\ UNCHANGED procs
    /\ UNCHANGED <<sumVars, cliVars, envVars, regVars, sigterms, file, notified, lastSend, nextSid, to_remove,
                   sweepVars, watchVars, histVars>>

\* WorkerManager.spawn_worker, lines 69-78.
WorkerManager_spawn_worker_store ==
    /\ impl = "minimal"
    /\ mpc = "run_store"
    /\ workers' = [workers EXCEPT ![margs.name] = margs.sid]
    /\ order' = IF workers[margs.name] # 0 THEN order ELSE Append(order, margs.name)
    /\ rec' = [rec EXCEPT ![margs.sid] =
                 NewRecord(margs.name, margs.sid, TRUE, margs.target)]
    /\ mpc' = "run_save"
    /\ UNCHANGED <<sumVars, cliVars, envVars, osVars, file, notified, lastSend, nextSid, margs, to_remove, ret,
                   sweepVars, watchVars, histVars>>

\* WorkerManager.spawn_worker, lines 80-91: save_workers, start the
\* watcher thread of this worker, return True; an exception of
\* save_workers (lines 34-37 catch nothing) lands in the except of line 93,
\* which returns False.
WorkerManager_spawn_worker_save ==
    /\ impl = "minimal"
    /\ mpc = "run_save"
    /\ \E ok \in SaveOutcomes :
         /\ file' = Written(ok)
         /\ IF ok
            THEN wpc' = [wpc EXCEPT ![margs.sid] = "start"] /\ Return(TRUE, 0)
            ELSE UNCHANGED wpc /\ Return(FALSE, 0)
    /\ UNCHANGED <<sumVars, cliVars, envVars, regVars, osVars, notified, lastSend, nextSid, to_remove,
                   sweepVars, wref, histVars>>

\* WorkerManager._monitor_worker, lines 99-103: the watcher of the worker
\* spawned with session id s looks its name up.
WorkerManager_monitor_worker_start(s) ==
    /\ impl = "minimal"
    /\ wpc[s] = "start"
    /\ IF workers[rec[s].name] = 0
       THEN wpc' = [wpc EXCEPT ![s] = "done"] /\ UNCHANGED wref
       ELSE /\ wref' = [wref EXCEPT ![s] = workers[rec[s].name]]
            /\ wpc' = [wpc EXCEPT ![s] = "wait"]
    /\ seenAlive' = IF workers[rec[s].name] # 0 /\ procs[rec[workers[rec[s].name]].pid] = "alive"
                    THEN seenAlive \cup {workers[rec[s].name]}
                    ELSE seenAlive
    /\ UNCHANGED <<sumVars, cliVars, envVars, regVars, osVars, file, notified, lastSend, nextSid, mpc, margs,
                   to_remove, ret, sweepVars, examined, exitSeen, killSeen, killedFirst, scanned>>

\* The positions of a watcher inside _handle_completion, and the same
\* positions in the second call of _handle_completion, made by the except
\* of _monitor_worker (lines 111-113) when the first call raised OSError.
Retry == [handle |-> "rehandle", time |-> "retime", notify |-> "renotify", save |-> "resave"]

WatcherAt(s, p) == wpc[s] \in {p, Retry[p]}

WatcherGoto(s, p) ==
    [wpc EXCEPT ![s] = IF wpc[s] \in {Retry[q] : q \in DOMAIN Retry} THEN Retry[p] ELSE p]

\* os.waitpid(pid, 0) returns, or raises for a child already reaped: either
\* way only once the process is gone.
WaitpidReturns(p) == procs[p] = "gone"

\* WorkerManager._monitor_worker, lines 104-113: blocked in waitpid until
\* the process has exited; both branches call _handle_completion.
WorkerManager_monitor_worker_wait(s) ==
    /\ impl = "minimal"
    /\ wpc[s] = "wait"
    /\ WaitpidReturns(rec[wref[s]].pid)
    /\ exitSeen' = exitSeen \cup {wref[s]}
    /\ examined' = examined \cup {wref[s]}
    /\ wpc' = [wpc EXCEPT ![s] = "handle"]
    /\ UNCHANGED <<sumVars, cliVars, envVars, regVars, osVars, file, notified, lastSend, nextSid, mpc, margs,
                   to_remove, ret, sweepVars, wref, killSeen, killedFirst, scanned, seenAlive>>

\* The status WorkerManager._handle_completion writes (line 121), whatever
\* the status was.
HandlerStatus(old) == "completed"

\* WorkerManager._handle_completion, lines 117-121: the lookup by name and
\* worker["status"] = "completed".
WorkerManager_handle_completion_mark(s) ==
    /\ impl = "minimal"
    /\ WatcherAt(s, "handle")
    /\ IF workers[rec[s].name] = 0
       THEN wpc' = [wpc EXCEPT ![s] = "done"] /\ UNCHANGED <<wref, rec>>
       ELSE /\ wref' = [wref EXCEPT ![s] = workers[rec[s].name]]
            /\ rec' = [rec EXCEPT ![workers[rec[s].name]].status = HandlerStatus(@)]
            /\ wpc' = WatcherGoto(s, "time")
    /\ seenAlive' = seenAlive \ {workers[rec[s].name]}
    /\ UNCHANGED <<sumVars, cliVars, envVars, workers, order, osVars, file, notified, lastSend, nextSid, mpc, margs,
                   to_remove, ret, sweepVars, examined, exitSeen, killSeen, killedFirst, scanned>>

\* WorkerManager._handle_completion, line 122: worker["end_time"] = ...
WorkerManager_handle_completion_time(s) ==
    /\ impl = "minimal"
    /\ WatcherAt(s, "time")
    /\ rec' = [rec EXCEPT ![wref[s]].end_time = TRUE]
    /\ wpc' = WatcherGoto(s, "notify")
    /\ UNCHANGED <<sumVars, cliVars, envVars, workers, order, osVars, file, notified, lastSend, nextSid, mpc, margs,
                   to_remove, ret, sweepVars, wref, histVars>>

\* WorkerManager._handle_completion, lines 125-138, and _notify_completion,
\* lines 143-155: self.workers[name] is looked up again (a KeyError ends
\* the thread), then one notification goes to that record's target; the
\* call has no timeout and its exceptions are caught (lines 149-155).
WorkerManager_handle_completion_notify(s) ==
    /\ impl = "minimal"
    /\ WatcherAt(s, "notify")
    /\ IF workers[rec[s].name] = 0
       THEN wpc' = [wpc EXCEPT ![s] = "done"] /\ UNCHANGED <<notified, lastSend>>
       ELSE /\ notified' = HandleCompletion(rec[s].name)
            /\ \E o \in SendOutcomes \ {"timeout"} : lastSend' = SendStatus(o)
            /\ wpc' = WatcherGoto(s, "save")
    /\ UNCHANGED <<sumVars, cliVars, envVars, regVars, osVars, file, nextSid, mpc, margs,
                   to_remove, ret, sweepVars, wref, histVars>>

\* WorkerManager._handle_completion, line 139: save_workers.  Its OSError
\* in the first call is caught by the except of _monitor_worker, which
\* calls _handle_completion again; in the second call it ends the thread.
WorkerManager_handle_completion_save(s) ==
    /\ impl = "minimal"
    /\ WatcherAt(s, "save")
    /\ \E ok \in SaveOutcomes :
         /\ file' = Written(ok)
         /\ wpc' = [wpc EXCEPT ![s] = IF ok THEN "done"
                                      ELSE IF wpc[s] = "save" THEN "rehandle" ELSE "died"]
    /\ UNCHANGED <<sumVars, cliVars, envVars, regVars, osVars, notified, lastSend, nextSid, mpc, margs,
                   to_remove, ret, sweepVars, wref, histVars>>

\* WorkerManager.kill_worker, lines 159-166: unknown name, or not running.
WorkerManager_kill_worker_check ==
    /\ impl = "minimal"
    /\ mpc = "kill_check"
    /\ IF workers[margs.name] = 0
       THEN Return(FALSE, 0)
       ELSE IF rec[workers[margs.name]].status # "running"
            THEN Return(FALSE, 0)
            ELSE /\ margs' = [margs EXCEPT !.sid = workers[margs.name]]
                 /\ mpc' = "kill_signal"
                 /\ UNCHANGED ret
    /\ UNCHANGED <<sumVars, cliVars, envVars, regVars, osVars, file, notified, lastSend, nextSid, to_remove,
                   sweepVars, watchVars, histVars>>

\* WorkerManager.kill_worker, line 170.
WorkerManager_kill_worker_signal ==
    /\ impl = "minimal"
    /\ mpc = "kill_signal"
    /\ sigterms' = Killpg(rec[margs.sid].pid)
    /\ margs' = [margs EXCEPT !.sigok = Signalled(rec[margs.sid].pid)]
    /\ killSeen' = killSeen \cup {margs.sid}
    /\ mpc' = "kill_mark"
    /\ UNCHANGED <<sumVars, cliVars, envVars, regVars, procs, file, notified, lastSend, nextSid, to_remove, ret,
                   sweepVars, watchVars, examined, exitSeen, killedFirst, scanned, seenAlive>>

\* WorkerManager.kill_worker, lines 171 / 177: the status alone; no
\* end_time is written.
WorkerManager_kill_worker_mark ==
    /\ impl = "minimal"
    /\ mpc = "kill_mark"
    /\ rec' = [rec EXCEPT ![margs.sid].status = KillStatus(margs.sigok)]
    /\ killedFirst' = IF margs.sigok /\ margs.sid \notin exitSeen
                      THEN killedFirst \cup {margs.sid}
                      ELSE killedFirst
    /\ seenAlive' = seenAlive \ {margs.sid}
    /\ mpc' = "kill_save"
    /\ UNCHANGED <<sumVars, cliVars, envVars, workers, order, osVars, file, notified, lastSend, nextSid, margs,
                   to_remove, ret, sweepVars, watchVars, examined, exitSeen, killSeen, scanned>>

\* WorkerManager.kill_worker, lines 172-174 / 178-179.  An OSError of the
\* save_workers of line 172 is caught by the except of line 175 (the try
\* block has raised: sigok becomes FALSE), which writes dead and saves
\* again; an exception of the save_workers of line 178 reaches the caller.
WorkerManager_kill_worker_save ==
    /\ impl = "minimal"
    /\ mpc = "kill_save"
    /\ \E ok \in SaveOutcomes :
         /\ file' = Written(ok)
         /\ IF ok
            THEN Return(TRUE, 0)
            ELSE IF margs.sigok
                 THEN /\ mpc' = "kill_mark"
                      /\ margs' = [margs EXCEPT !.sigok = FALSE]
                      /\ UNCHANGED ret
                 ELSE Raise
    /\ UNCHANGED <<sumVars, cliVars, envVars, regVars, osVars, notified, lastSend, nextSid, to_remove,
                   sweepVars, watchVars, histVars>>

\* WorkerManager.cleanup_dead, lines 198-201.
WorkerManager_cleanup_dead_scan ==
    /\ impl = "minimal"
    /\ mpc = "cleanup_scan"
    /\ to_remove' = ToRemove
    /\ margs' = [margs EXCEPT !.count = Len(ToRemove)]
    /\ mpc' = "cleanup_del"
    /\ scanned' = ScanNow
    /\ UNCHANGED <<sumVars, cliVars, envVars, regVars, osVars, file, notified, lastSend, nextSid, ret,
                   sweepVars, watchVars, examined, exitSeen, killSeen, killedFirst, seenAlive>>

\* WorkerManager.cleanup_dead, lines 203-205.
WorkerManager_cleanup_dead_del ==
    /\ impl = "minimal"
    /\ mpc = "cleanup_del"
    /\ IF to_remove = <<>>
       THEN mpc' = "cleanup_save" /\ UNCHANGED <<workers, order, to_remove>>
       ELSE /\ workers' = [workers EXCEPT ![Head(to_remove)] = 0]
            /\ order' = RemoveName(order, Head(to_remove))
            /\ to_remove' = Tail(to_remove)
            /\ UNCHANGED mpc
    /\ UNCHANGED <<sumVars, cliVars, envVars, rec, osVars, file, notified, lastSend, nextSid, margs, ret,
                   sweepVars, watchVars, histVars>>

\* WorkerManager.list_workers, lines 181-194: prints one line per record;
\* returns None (-1).
WorkerManager_list_workers ==
    /\ impl = "minimal"
    /\ mpc = "list"
    /\ Return(TRUE, -1)
    /\ UNCHANGED <<sumVars, cliVars, envVars, regVars, osVars, file, notified, lastSend, nextSid, to_remove,
                   sweepVars, watchVars, histVars>>

\* WorkerManager.cleanup_dead, line 207: always saves; returns None (-1);
\* an exception of save_workers reaches the caller.
WorkerManager_cleanup_dead_save ==
    /\ impl = "minimal"
    /\ mpc = "cleanup_save"
    /\ \E ok \in SaveOutcomes :
         /\ file' = Written(ok)
         /\ IF ok THEN Return(TRUE, -1) ELSE Raise
    /\ scanned' = NoScan
    /\ UNCHANGED <<sumVars, cliVars, envVars, regVars, osVars, notified, lastSend, nextSid, to_remove,
                   sweepVars, watchVars, examined, exitSeen, killSeen, killedFirst, seenAlive>>

\* ------------------------------------------------------------- texts
\* A text is a sequence of runs of characters: n characters that are all
\* whitespace (ws) or all not, cut from source src at offset off.  Sources:
\* the i-th line of the transcript (i >= 1) or a literal of the program
\* (below 0).
NoOutputSrc == -1
ErrorSrc == -2
EllipsisSrc == -3
NewlineSrc == -4

Chars(n, src) == IF n = 0 THEN <<>> ELSE <<[ws |-> FALSE, n |-> n, src |-> src, off |-> 0]>>

\* lead whitespace characters, core others, trail whitespace characters
Padded(lead, core, trail) ==
    (IF lead = 0 THEN <<>> ELSE <<[ws |-> TRUE, n |-> lead, src |-> 0, off |-> 0]>>)
    \o (IF core = 0 THEN <<>> ELSE <<[ws |-> FALSE, n |-> core, src |-> 0, off |-> lead]>>)
    \o (IF trail = 0 THEN <<>>
        ELSE <<[ws |-> TRUE, n |-> trail, src |-> 0, off |-> lead + core]>>)

\* the same characters, as those of source i
Retag(t, i) == [j \in 1..Len(t) |-> [t[j] EXCEPT !.src = i]]

\* len(t)
RECURSIVE TextLen(_)
TextLen(t) == IF t = <<>> THEN 0 ELSE Head(t).n + TextLen(Tail(t))

\* t[:k]
RECURSIVE Take(_, _)
Take(t, k) ==
    IF t = <<>> \/ k = 0 THEN <<>>
    ELSE IF Head(t).n <= k THEN <<Head(t)>> \o Take(Tail(t), k - Head(t).n)
         ELSE <<[Head(t) EXCEPT !.n = k]>>

RECURSIVE LStrip(_)
LStrip(t) == IF t # <<>> /\ Head(t).ws THEN LStrip(Tail(t)) ELSE t

RECURSIVE RStrip(_)
RStrip(t) == IF t # <<>> /\ t[Len(t)].ws THEN RStrip(SubSeq(t, 1, Len(t) - 1)) ELSE t

\* t.strip()
Strip(t) == RStrip(LStrip(t))

\* seq[-k:]
LastN(seq, k) == SubSeq(seq, IF Len(seq) > k THEN Len(seq) - k + 1 ELSE 1, Len(seq))

\* "..."
Ellipsis == Chars(3, EllipsisSrc)

\* "\n"
Newline == <<[ws |-> TRUE, n |-> 1, src |-> NewlineSrc, off |-> 0]>>

\* "No output captured"
NoOutput == Chars(18, NoOutputSrc)

\* str(e) of the exceptions _extract_summary can meet: its length
ErrorMessageLen(cause) ==
    CASE cause = "open" -> 56
      [] cause = "decode" -> 70
      [] cause = "fatal" -> 82
      [] cause = "scalar" -> 33
      [] cause = "concat" -> 45
      [] cause = "slice" -> 24
      [] cause = "badindex" -> 48

\* f"Error reading output: {e}"
ErrorText(cause) == Chars(22 + ErrorMessageLen(cause), ErrorSrc)

\* ------------------------------------------------------------- transcripts
\* A line of the transcript: its characters, whether it starts with
\* "2026-", whether it contains '"result":', what json.loads makes of it
\* ("invalid": JSONDecodeError; "fatal": another exception, such as
\* RecursionError; "nokey": a value in which 'result' is not found;
\* "badindex": a list that holds the string 'result'; "object": a dict
\* with the key), and the type, text or size of data['result'].
Line(text, stamp, has_result, parse, rtype, rtext, rsize) ==
    [text |-> text, stamp |-> stamp, has_result |-> has_result, parse |-> parse,
     rtype |-> rtype, rtext |-> rtext, rsize |-> rsize]

PlainLines ==
    {Line(tx, FALSE, FALSE, "none", "none", <<>>, 0) :
        tx \in {<<>>, Padded(2, 0, 0), Padded(0, 3, 0), Padded(2, 246, 2)}}

StampLines ==
    {Line(Padded(0, 30, 0), TRUE, hr, IF hr THEN "invalid" ELSE "none", "none", <<>>, 0) :
        hr \in BOOLEAN}

MarkedLines ==
    {Line(Padded(0, 30, 0), FALSE, TRUE, pr, "none", <<>>, 0) :
        pr \in {"invalid", "fatal", "nokey", "badindex"}}

ResultTexts ==
    {<<>>, Padded(0, 4, 0), Padded(2, 4, 3), Padded(0, 300, 0), Padded(0, 301, 0),
     Padded(1, 598, 1)}

ResultLines ==
    {Line(Padded(0, 13 + TextLen(rt), 0), FALSE, TRUE, "object", "str", rt, 0) :
        rt \in ResultTexts}
    \cup {Line(Padded(0, 40, 0), FALSE, TRUE, "object", ty, <<>>, sz) :
            ty \in {"list", "dict"}, sz \in {0, 301}}
    \cup {Line(Padded(0, 14, 0), FALSE, TRUE, "object", "scalar", <<>>, 0)}

LineSet == PlainLines \cup StampLines \cup MarkedLines \cup ResultLines

\* k times the line l
Repeat(l, k) == [j \in 1..k |-> l]

\* Transcripts longer than the fallback's window: a plain lines, b lines
\* with a time stamp, c lines of blanks, d plain lines; the plain lines are
\* all short or all 250 characters long.
LongLogs ==
    {Repeat(Line(tx, FALSE, FALSE, "none", "none", <<>>, 0), a)
     \o Repeat(Line(Padded(0, 30, 0), TRUE, FALSE, "none", "none", <<>>, 0), b)
     \o Repeat(Line(Padded(2, 0, 0), FALSE, FALSE, "none", "none", <<>>, 0), c)
     \o Repeat(Line(tx, FALSE, FALSE, "none", "none", <<>>, 0), d) :
        tx \in {Padded(0, 3, 0), Padded(2, 246, 2)},
        a \in 0..MaxHead, b \in 0..MaxStamps, c \in 0..MaxBlank, d \in 0..MaxTail}
    \ {<<>>}

\* The states of the log file: missing, not openable, not decodable, or
\* readable with content.split('\n') giving these lines.
LogFiles ==
    {[state |-> s, lines |-> <<>>] : s \in {"missing", "unreadable", "undecodable"}}
    \cup {[state |-> "ok", lines |-> ls] :
            ls \in UNION {[1..k -> LineSet] : k \in 1..MaxLines}}
    \cup {[state |-> "ok", lines |-> ls] : ls \in LongLogs}

\* ------------------------------------------------------------- Runner._extract_summary
StrSummary(tx) == [type |-> "str", text |-> tx, size |-> 0]

\* line 280: the except of the whole function
ErrorSummary(cause) == StrSummary(ErrorText(cause))

\* line 270, for a result that is a str
ResultSummary_whole(tx) == tx

ResultSummary(tx) ==
    IF TextLen(tx) > ResultMax THEN Take(tx, ResultMax) \o Ellipsis ELSE tx

\* Lines 267-270 for a parsed dict that has the key: len(result) and the
\* slice work on a str; on a list or dict the comparison works, the
\* concatenation or the slice raises; len() of a number, bool or None
\* raises.
ResultOf(l, i) ==
    CASE l.rtype = "str" -> StrSummary(ResultSummary(Retag(l.rtext, i)))
      [] l.rtype = "list" ->
            IF l.rsize > ResultMax THEN ErrorSummary("concat")
            ELSE [type |-> "list", text |-> <<>>, size |-> l.rsize]
      [] l.rtype = "dict" ->
            IF l.rsize > ResultMax THEN ErrorSummary("slice")
            ELSE [type |-> "dict", text |-> <<>>, size |-> l.rsize]
      [] OTHER -> ErrorSummary("scalar")

\* line 276
Meaningful(l) == Strip(l.text) # <<>> /\ ~l.stamp

RECURSIVE JoinLines(_, _)
JoinLines(lines, idx) ==
    IF idx = <<>> THEN <<>>
    ELSE Retag(lines[Head(idx)].text, Head(idx))
         \o (IF Len(idx) > 1 THEN Newline \o JoinLines(lines, Tail(idx)) ELSE <<>>)

\* lines 275-277 with the time-stamp filter applied to the whole transcript,
\* before the window
Fallback_filterFirst(lines) ==
    LET all == [j \in 1..Len(lines) |-> j]
        plain == SelectSeq(all, LAMBDA i : ~lines[i].stamp)
        window == LastN(plain, FallbackWindow)
        meaningful_lines == SelectSeq(window, LAMBDA i : Strip(lines[i].text) # <<>>)
    IN  StrSummary(Take(JoinLines(lines, LastN(meaningful_lines, FallbackKeep)),
                        FallbackMax))

\* lines 275-277: the fallback
Fallback(lines) ==
    LET n == Len(lines)
        lo == IF n > FallbackWindow THEN n - FallbackWindow + 1 ELSE 1
        window == [j \in 1..(n - lo + 1) |-> lo + j - 1]
        meaningful_lines == SelectSeq(window, LAMBDA i : Meaningful(lines[i]))
    IN  StrSummary(Take(JoinLines(lines, LastN(meaningful_lines, FallbackKeep)),
                        FallbackMax))

\* lines 263-272: for line in reversed(lines), from line i down
RECURSIVE Scan(_, _)
Scan(lines, i) ==
    IF i = 0 THEN Fallback(lines)
    ELSE LET l == lines[i]
         IN  IF ~l.has_result THEN Scan(lines, i - 1)
             ELSE CASE l.parse = "invalid" -> Scan(lines, i - 1)
                    [] l.parse = "nokey" -> Scan(lines, i - 1)
                    [] l.parse = "fatal" -> ErrorSummary("fatal")
                    [] l.parse = "badindex" -> ErrorSummary("badindex")
                    [] OTHER -> ResultOf(l, i)

\* Runner._extract_summary(log_file), lines 251-280
ExtractSummary(f) ==
    CASE f.state = "missing" -> StrSummary(NoOutput)
      [] f.state = "unreadable" -> ErrorSummary("open")
      [] f.state = "undecodable" -> ErrorSummary("decode")
      [] OTHER -> Scan(f.lines, Len(f.lines))

\* Notifier._format_completion_message, lines 59-61
CleanSummary(tx) ==
    IF TextLen(Strip(tx)) > CleanMax
    THEN Take(Strip(tx), CleanMax) \o Ellipsis
    ELSE Strip(tx)

\* Runner._handle_completion, line 245
Runner_extract_summary ==
    /\ xpc = "idle"
    /\ summary' = ExtractSummary(log_file)
    /\ xpc' = "extracted"
    /\ UNCHANGED <<lifeVars, cliVars, log_file, clean_summary>>

\* Runner._handle_completion, line 249, into notify_completion, line 41:
\* summary.strip() raises on a summary that is not a str.
Notifier_format_completion_message ==
    /\ xpc = "extracted"
    /\ IF summary.type = "str"
       THEN clean_summary' = CleanSummary(summary.text) /\ xpc' = "formatted"
       ELSE xpc' = "raised" /\ UNCHANGED clean_summary
    /\ UNCHANGED <<lifeVars, cliVars, log_file, summary>>

\* ------------------------------------------------------------- the command line
\* One run of blaude.py: Blaude() builds a Runner from the registry file,
\* main runs one command on it and the process exits.
\*
\* What json.load can return for the file: a dict, whose value under a name
\* is a record that is running, a record that is terminal, or a number; a
\* list or a str, of which a name is a member (a substring) or not; null, a
\* number, a bool.
EntryKinds == {"none", "running", "terminal", "number"}

NoEntries == [n \in Names |-> "none"]

PyValue(t, e) == [type |-> t, entries |-> e]

EmptyDict == PyValue("dict", NoEntries)

JsonValues ==
    {PyValue("dict", e) : e \in [Names -> EntryKinds]}
    \cup {PyValue(t, e) : t \in {"list", "str"}, e \in [Names -> {"none", "member"}]}
    \cup {PyValue(t, NoEntries) : t \in {"null", "number", "bool"}}

\* The registry file: missing, not openable, not JSON, or JSON.
RegistryFiles ==
    {[state |-> st, value |-> EmptyDict] : st \in {"missing", "unreadable", "malformed"}}
    \cup {[state |-> "json", value |-> v] : v \in JsonValues}

NoFile == [state |-> "missing", value |-> EmptyDict]

\* Runner.load_workers, lines 27-35: what json.load returned, whatever it
\* is; {} when the file is missing or an exception was caught.
LoadWorkers(f) == IF f.state = "json" THEN f.value ELSE EmptyDict

\* name in self.workers (lines 83, 155): a key of a dict, a member of a
\* list, a substring of a str; TypeError on None, a number or a bool.
Contains(w, n) ==
    CASE w.type = "dict" -> IF w.entries[n] # "none" THEN "yes" ELSE "no"
      [] w.type \in {"list", "str"} -> IF w.entries[n] = "member" THEN "yes" ELSE "no"
      [] OTHER -> "raise"

\* for name, worker in self.workers.items() with worker["status"] or
\* worker["start_time"] read in the loop (lines 183-184, 195-196, 220-221):
\* AttributeError on what is not a dict, TypeError on a value that is a
\* number.
ReadsRaise(w) == w.type # "dict" \/ \E n \in Names : w.entries[n] = "number"

\* what an operation gave its caller, and self.workers after it
Outcome(success, raised, w) == [success |-> success, raised |-> raised, workers |-> w]

\* Runner.run, lines 83-151, on this registry, with the environment's
\* answers: authentication found, process launched, kind of the summary of
\* a foreground run.
RunOutcome(w, n, bg, auth, launch, k) ==
    CASE Contains(w, n) = "raise" -> Outcome(FALSE, TRUE, w)
      [] Contains(w, n) = "yes" -> Outcome(FALSE, FALSE, w)
      [] OTHER ->
           IF ~auth \/ ~launch \/ w.type # "dict"
           THEN Outcome(FALSE, FALSE, w)
           ELSE Outcome(bg \/ ~FormatRaises(k), FALSE,
                        [w EXCEPT !.entries[n] = IF bg THEN "running" ELSE "terminal"])

\* Runner.kill_worker, lines 155-176, on this registry.
KillOutcome(w, n) ==
    CASE Contains(w, n) = "raise" -> Outcome(FALSE, TRUE, w)
      [] Contains(w, n) = "no" -> Outcome(FALSE, FALSE, w)
      [] OTHER ->
           IF w.type # "dict" \/ w.entries[n] = "number"
           THEN Outcome(FALSE, TRUE, w)
           ELSE IF w.entries[n] = "running"
                THEN Outcome(TRUE, FALSE, [w EXCEPT !.entries[n] = "terminal"])
                ELSE Outcome(FALSE, FALSE, w)

\* Runner.list_workers, lines 178-191.
ListOutcome(w) == Outcome(~ReadsRaise(w), ReadsRaise(w), w)

\* Runner.cleanup_completed, lines 193-205.
CleanupOutcome(w) ==
    IF ReadsRaise(w)
    THEN Outcome(FALSE, TRUE, w)
    ELSE Outcome(TRUE, FALSE,
                 [w EXCEPT !.entries = [n \in Names |->
                                          IF w.entries[n] = "terminal" THEN "none"
                                          ELSE w.entries[n]]])

\* main, lines 138-158, and the interpreter: sys.exit(0 if success else 1)
\* for spawn, kill and test-notify; the end of main for list, cleanup and
\* status; 1 for an exception nothing caught.
ExitCode(command, success, raised) ==
    IF raised THEN 1
    ELSE IF command \in {"spawn", "kill", "test-notify"}
         THEN IF success THEN 0 ELSE 1
         ELSE 0

NoCli ==
    [command |-> "none", name |-> "", background |-> FALSE, pc |-> "off",
     success |-> FALSE, raised |-> FALSE, exit_code |-> -1, monitor |-> "none"]

\* the command lines: lines 98-122
Commands ==
    {[NoCli EXCEPT !.command = "spawn", !.name = n, !.background = bg, !.pc = "start"] :
        n \in Names, bg \in BOOLEAN}
    \cup {[NoCli EXCEPT !.command = "kill", !.name = n, !.pc = "start"] : n \in Names}
    \cup {[NoCli EXCEPT !.command = c, !.pc = "start"] :
            c \in {"list", "cleanup", "status", "test-notify"}}

\* Blaude.__init__, lines 19-21, into Runner.__init__, lines 18-25: the
\* registry is loaded and the monitor thread started.
Blaude_init ==
    /\ cli.pc = "start"
    /\ cli_workers' = LoadWorkers(registry_file)
    /\ cli' = [cli EXCEPT !.pc = "ready", !.monitor = "started"]
    /\ UNCHANGED <<lifeVars, sumVars, registry_file>>

\* The first pass of the monitor thread over the loaded registry, lines
\* 209-221: an exception ends the thread.
Runner_monitor_loop ==
    /\ cli.monitor = "started"
    /\ cli.pc \in {"ready", "ran"}
    /\ cli' = [cli EXCEPT !.monitor = IF ReadsRaise(cli_workers) THEN "crashed" ELSE "alive"]
    /\ UNCHANGED <<lifeVars, sumVars, registry_file, cli_workers>>

\* the command has run: what it gave, and the registry after it
Ran(o) ==
    /\ cli' = [cli EXCEPT !.pc = "ran", !.success = o.success, !.raised = o.raised]
    /\ cli_workers' = o.workers

\* main, lines 138-141
Main_spawn ==
    /\ cli.pc = "ready" /\ cli.command = "spawn"
    /\ \E auth \in BOOLEAN, launch \in BOOLEAN, k \in SummaryKinds :
         Ran(RunOutcome(cli_workers, cli.name, cli.background, auth, launch, k))
    /\ UNCHANGED <<lifeVars, sumVars, registry_file>>

\* main, lines 143-145
Main_kill ==
    /\ cli.pc = "ready" /\ cli.command = "kill"
    /\ Ran(KillOutcome(cli_workers, cli.name))
    /\ UNCHANGED <<lifeVars, sumVars, registry_file>>

\* main, lines 147-148, and Blaude.list, lines 32-51
Main_list ==
    /\ cli.pc = "ready" /\ cli.command = "list"
    /\ Ran(ListOutcome(cli_workers))
    /\ UNCHANGED <<lifeVars, sumVars, registry_file>>

\* main, lines 150-151, and Blaude.cleanup, lines 53-57
Main_cleanup ==
    /\ cli.pc = "ready" /\ cli.command = "cleanup"
    /\ Ran(CleanupOutcome(cli_workers))
    /\ UNCHANGED <<lifeVars, sumVars, registry_file>>

\* main, lines 153-154, and Blaude.status, lines 63-76: list_workers, then
\* counts
Main_status ==
    /\ cli.pc = "ready" /\ cli.command = "status"
    /\ Ran(ListOutcome(cli_workers))
    /\ UNCHANGED <<lifeVars, sumVars, registry_file>>

\* main, lines 156-158, and Notifier.test_notification, lines 101-105
Main_test_notify ==
    /\ cli.pc = "ready" /\ cli.command = "test-notify"
    /\ \E o \in SendOutcomes : Ran(Outcome(SendResult(o), SendRaises(o), cli_workers))
    /\ UNCHANGED <<lifeVars, sumVars, registry_file>>

\* The process ends.
Main_exit ==
    /\ cli.pc = "ran"
    /\ cli' = [cli EXCEPT !.pc = "exited",
                          !.exit_code = ExitCode(cli.command, cli.success, cli.raised)]
    /\ UNCHANGED <<lifeVars, sumVars, registry_file, cli_workers>>

\* no run of the command line is modelled
CliOff ==
    /\ registry_file = NoFile
    /\ cli_workers = EmptyDict
    /\ cli = NoCli

\* The supervisor after construction on an empty registry.
Init ==
    /\ LifeInit
    /\ log_file = NoLog
    /\ summary = NoSummary
    /\ clean_summary = <<>>
    /\ xpc = "off"
    /\ CliOff

\* ------------------------------------------------------------- properties
\* No thread is part-way through an operation: the caller is idle, the
\* sweep is between two passes, every watcher is finished or blocked in
\* waitpid on a live process.
Settled ==
    /\ mpc = "idle"
    /\ spc = "start"
    /\ \A s \in Sids :
         \/ wpc[s] \in {"none", "done"}
         \/ wpc[s] = "wait" /\ procs[rec[wref[s]].pid] = "alive"

\* C1: a spawn called with a name the registry already holds (in any
\* status) returns failure, launches no process and leaves that record and
\* every other record, in memory and on disk, unchanged.
C1_DuplicateSpawnRejected ==
    [][(mpc = "run_check" /\ workers[margs.name] # 0 /\ mpc' # mpc)
        => /\ mpc' = "idle"
           /\ ret'.op = "run" /\ ret'.name = margs.name /\ ret'.value = FALSE
           /\ UNCHANGED <<workers, order, rec, procs, sigterms, file, nextSid,
                          notified, wpc>>]_vars

\* A duplicate spawn has just been refused: the name holds a terminal
\* record and the other name holds a record too.
C1_Witness ==
    /\ mpc = "idle" /\ ret.op = "run" /\ ~ret.value
    /\ workers[ret.name] # 0
    /\ rec[workers[ret.name]].status \in Terminal
    /\ \E n \in Names \ {ret.name} : workers[n] # 0 /\ rec[workers[n]].status = "running"

\* C2: in Runner, under every interleaving of kill_worker, the sweep and
\* process exit, a record whose status is completed, killed or dead never
\* changes status again.
C2_TerminalStatusFinal ==
    [][\A s \in Sids :
         (impl = "runner" /\ rec[s].status \in Terminal)
            => rec'[s].status = rec[s].status]_vars

\* C3: when an explicit kill of a worker and the exit detection (sweep or
\* watcher) have both looked at the worker's terminated process, exactly
\* one notification has been dispatched for it once every thread is done.
C3_KillAndExitNotifyOnce ==
    \A s \in Sids :
        (s \in killSeen /\ s \in examined /\ Settled) => Len(notified[s]) = 1

\* C4: every worker of Runner that has reached a terminal status, by
\* whatever path (exit seen by the sweep, kill of a live process, kill that
\* found the process gone, synchronous run), has had the completion
\* pipeline run exactly once for it, once its process is gone, the sweep
\* has looked at it since and every thread is done.
C4_TerminalPipelineOnce ==
    \A s \in Sids :
        (/\ impl = "runner"
         /\ rec[s].status \in Terminal
         /\ rec[s].background => s \in examined
         /\ Settled)
        => Len(notified[s]) = 1

\* C5: within one Runner no record has a completion notification
\* dispatched more than once, and the sweep never takes a record whose
\* status is already terminal through its completion transition.
C5_SweepNeverRefires ==
    [][/\ \A s \in Sids : impl = "runner" => Len(notified'[s]) <= 1
       /\ (spc = "mark" /\ spc' = "time")
             => rec[Head(squeue)[2]].status = "running"]_vars

\* C6: a background worker of Runner whose process exited on its own and
\* that no kill was ever aimed at has, when the sweep pass that saw the
\* exit is over, status completed with end_time set, that state on disk
\* while the registry holds the record, and exactly one notification, sent
\* to the notify_target given at spawn.
C6_NaturalExitCompletes ==
    \A s \in Sids :
        (/\ impl = "runner"
         /\ s \in exitSeen
         /\ s \notin killSeen
         /\ ~(margs.op = "kill" /\ margs.sid = s)
         /\ spc = "start")
        => /\ rec[s].status = "completed"
           /\ rec[s].end_time
           /\ workers[rec[s].name] = s => file[rec[s].name] = rec[s]
           /\ notified[s] = <<TargetOf[rec[s].name]>>

\* C7: kill of a name the registry does not hold, or whose record is not
\* running, returns failure and changes nothing: no signal, no record
\* field, no registry key, nothing written to disk.
C7_KillGuard ==
    [][(/\ mpc = "kill_check"
        /\ mpc' # mpc
        /\ \/ workers[margs.name] = 0
           \/ rec[workers[margs.name]].status # "running")
        => /\ mpc' = "idle"
           /\ ret'.op = "kill" /\ ret'.name = margs.name /\ ret'.value = FALSE
           /\ UNCHANGED <<workers, order, rec, procs, sigterms, file, notified,
                          killSeen>>]_vars

\* A kill of a record that is not running has just been refused.
C7_Witness ==
    /\ mpc = "idle" /\ ret.op = "kill" /\ ~ret.value
    /\ workers[ret.name] # 0
    /\ rec[workers[ret.name]].status \in Terminal

\* C8: a kill that delivered its signal to a live process group returns
\* success with the record's status killed, its end_time set and that
\* state on disk, and a further kill of the name is refused.
C8_KillLiveWorker ==
    [][(mpc = "kill_save" /\ margs.sigok /\ mpc' # mpc)
        => /\ mpc' = "idle" /\ ret'.value = TRUE
           /\ sigterms'[rec[margs.sid].pid] >= 1
           /\ rec'[margs.sid].status = "killed"
           /\ rec'[margs.sid].end_time
           /\ file'[margs.name] = rec'[margs.sid]
           /\ rec'[workers'[margs.name]].status # "running"]_vars

\* C9: a Runner kill that found the process already gone returns success
\* with the record's status dead (not killed), its end_time set and that
\* state on disk.
C9_KillGoneWorker ==
    [][(impl = "runner" /\ mpc = "kill_save" /\ ~margs.sigok /\ mpc' # mpc)
        => /\ mpc' = "idle" /\ ret'.value = TRUE
           /\ rec'[margs.sid].status = "dead"
           /\ rec'[margs.sid].end_time
           /\ file'[margs.name] = rec'[margs.sid]]_vars

\* C10: a worker that kill set to killed before any sweep or watcher
\* observed the exit of its process has status killed in every later state.
C10_KilledStaysKilled ==
    \A s \in killedFirst : rec[s].status = "killed"

\* C11: cleanup leaves every record as it is, removes from the registry
\* exactly the records whose status was terminal when it looked (every
\* other record stays), and returns the number of records it removed.
C11_CleanupSelective ==
    [][/\ (/\ mpc \in {"cleanup_scan", "cleanup_del", "cleanup_save"}
           /\ (mpc' # mpc \/ to_remove' # to_remove))
          => rec' = rec
       /\ (mpc = "cleanup_save" /\ mpc' = "idle")
          => LET removed == {s \in scanned.all : workers'[rec[s].name] # s}
             IN  /\ removed = scanned.terminal
                 /\ ret'.count = Cardinality(removed)]_vars

\* C12: once every thread is done, each record has its end_time set
\* exactly when its status is terminal.
C12_EndTimeIffTerminal ==
    Settled =>
        \A s \in Sids :
            rec[s].status # "absent" => (rec[s].end_time <=> rec[s].status \in Terminal)

\* C13: at most one live process launched by the supervisor belongs to a
\* name at any time.
C13_OneProcessPerName ==
    \A n \in Names :
        Cardinality({p \in Sids : procs[p] = "alive" /\ rec[p].name = n}) <= 1

\* C14: a spawn that returns success has added the one record of its
\* name; a spawn that returns failure has added no record, in memory or on
\* disk; no spawn touches the entry of another name.
C14_SpawnAddsOneOrNone ==
    [][/\ (margs.op = "run" /\ mpc # "idle" /\ mpc' = "idle")
          => IF ret'.value
             THEN margs.sid # 0 /\ workers'[margs.name] = margs.sid
             ELSE \/ margs.sid = 0
                  \/ /\ workers'[margs.name] # margs.sid
                     /\ file'[margs.name].session_id # margs.sid
       /\ (margs.op = "run" /\ mpc' # mpc)
          => \A n \in Names \ {margs.name} : workers'[n] = workers[n]]_vars

\* C15: a record in status running holds the pid of the process its spawn
\* launched, and in Runner it is a background record; no record without a
\* pid is running.
C15_RunningHasPid ==
    \A s \in Sids :
        rec[s].status = "running"
            => /\ rec[s].pid # 0
               /\ rec[s].pid = s
               /\ procs[rec[s].pid] # "none"
               /\ impl = "runner" => rec[s].background

\* A background spawn of Runner succeeded a while ago: its record is still
\* running although the process has exited.
C15_Witness ==
    /\ impl = "runner"
    /\ \E s \in Sids :
         /\ rec[s].status = "running" /\ workers[rec[s].name] = s
         /\ procs[s] = "gone"
    /\ mpc = "kill_check"

\* C16: a synchronous spawn whose agent exited with code 0 stores its
\* record directly as completed, and returns success with the completion
\* pipeline run exactly once for the record.
C16_SynchronousSpawn ==
    [][/\ (mpc = "run_store" /\ ~margs.background /\ mpc' # mpc)
          => rec'[margs.sid].status = "completed"
       /\ (mpc = "run_complete" /\ mpc' # mpc)
          => /\ ret'.value = TRUE
             /\ rec'[margs.sid].status = "completed"
             /\ Len(notified'[margs.sid]) = 1]_vars

\* C17: a notification whose send fails (non-zero exit, timeout, command
\* not started) raises nothing: the sweep goes on with its pass, with no
\* record changed and end_time set on the record it completed, and the
\* save of the pass writes the registry; the synchronous spawn returns
\* success with its record and the file as they were.
C17_NotifyFailureHarmless ==
    [][/\ (spc = "handle" /\ spc' # spc /\ notified' # notified /\ lastSend' = "failed")
          => /\ spc' = "check"
             /\ rec' = rec /\ workers' = workers
             /\ rec[Head(squeue)[2]].status # "running"
             /\ rec[Head(squeue)[2]].end_time
             /\ updated'
       /\ (spc = "save" /\ spc' # spc /\ updated)
          => file' = [n \in Names |-> IF workers'[n] = 0 THEN NoRec
                                                        ELSE rec'[workers'[n]]]
       /\ (mpc = "run_complete" /\ mpc' # mpc /\ notified' # notified
                                /\ lastSend' = "failed")
          => /\ ret'.value = TRUE
             /\ rec' = rec /\ workers' = workers /\ file' = file]_vars

\* A sweep pass whose notification failed is over: the record is
\* completed with end_time set, in memory and on disk.
C17_Witness ==
    /\ impl = "runner" /\ lastSend = "failed" /\ spc = "start"
    /\ \E s \in Sids :
         /\ rec[s].background /\ Len(notified[s]) = 1
         /\ rec[s].status = "completed" /\ rec[s].end_time
         /\ workers[rec[s].name] = s /\ file[rec[s].name] = rec[s]

\* C18: whatever the state of the log file (missing, unreadable, garbled
\* lines, lines with '"result":' that are not valid JSON, JSON objects
\* whose result field is not text), what _extract_summary returns is a
\* plain text string.
C18_SummaryIsText ==
    xpc \in {"extracted", "formatted", "raised"} => summary.type = "str"

\* C19: for every content of the log file, the summary text the dispatcher
\* places in the completion message has at most 500 characters.
C19_SummaryBounded ==
    xpc = "formatted" => TextLen(clean_summary) <= CleanMax

\* A long result with blanks around it went through both functions: cut
\* to 300 characters and the ellipsis by the summarizer, stripped by the
\* dispatcher.
C19_Witness ==
    /\ xpc = "formatted"
    /\ Len(log_file.lines) = MaxLines
    /\ TextLen(summary.text) = ResultMax + 3
    /\ TextLen(clean_summary) = ResultMax + 2

\* C20: when the transcript has a line that is a JSON object with a result
\* field, _extract_summary returns the result text of the last such line:
\* as it is when it has at most 300 characters, else its first 300
\* characters followed by the ellipsis.
C20_LastResultReturned ==
    LET objects == {i \in 1..Len(log_file.lines) : log_file.lines[i].parse = "object"}
    IN  (xpc # "idle" /\ log_file.state = "ok" /\ objects # {})
        => LET i == CHOOSE j \in objects : \A k \in objects : k <= j
               result == Retag(log_file.lines[i].rtext, i)
           IN  /\ log_file.lines[i].rtype = "str"
               /\ summary.type = "str"
               /\ summary.text = IF TextLen(result) <= ResultMax
                                 THEN result
                                 ELSE Take(result, ResultMax) \o Ellipsis

\* the numbers of the set S as a sequence in increasing order
RECURSIVE Ascending(_)
Ascending(S) ==
    IF S = {} THEN <<>>
    ELSE LET m == CHOOSE x \in S : \A y \in S : x <= y
         IN  <<m>> \o Ascending(S \ {m})

\* the k largest numbers of the set S
Largest(S, k) == {i \in S : Cardinality({j \in S : j > i}) < k}

\* The scan for a result record comes to its end: every line that holds
\* '"result":' is rejected by the JSON parser or parses to a value that has
\* no result key.
NoResultRecord ==
    /\ log_file.state = "ok"
    /\ \A i \in 1..Len(log_file.lines) :
         log_file.lines[i].has_result => log_file.lines[i].parse \in {"invalid", "nokey"}

\* the line has a character that is not white space
NonBlank(l) == \E j \in 1..Len(l.text) : ~l.text[j].ws

HeldNames == {n \in Names : workers[n] # 0}

\* C27: once a record exists, no step of any operation (kill, the sweep,
\* the watcher, cleanup, a later spawn) changes its name, session_id, pid,
\* model, budget, notify_target, prompt, log_file or start_time: only
\* status and end_time change.
C27_FieldsFixed ==
    [][\A s \in Sids :
         rec[s].status # "absent"
         => [rec'[s] EXCEPT !.status = rec[s].status, !.end_time = rec[s].end_time]
            = rec[s]]_vars

\* A record that a kill has signalled and stamped, and that a sweep or a
\* watcher has examined after its process was gone, still with the fields
\* of its spawn.
C27_Witness ==
    \E s \in Sids :
      /\ s \in killSeen /\ s \in examined
      /\ rec[s].status \in Terminal /\ rec[s].end_time
      /\ rec[s].session_id = s /\ rec[s].pid = s /\ rec[s].start_time = s
      /\ rec[s].log_file = s /\ rec[s].prompt = rec[s].name

\* C28: the set of names the registry holds changes only by a spawn that
\* succeeds (it adds the spawn's name) and by cleanup (it removes names of
\* records whose status is terminal, never a running one); a spawn that
\* returns failure leaves no record of its own in the registry.
C28_NamesChangeOnlyBySpawnAndCleanup ==
    [][/\ HeldNames' # HeldNames
          => \/ /\ mpc = "run_store" /\ margs.name \notin HeldNames
                /\ HeldNames' = HeldNames \cup {margs.name}
             \/ /\ mpc = "cleanup_del"
                /\ \E n \in HeldNames :
                     /\ HeldNames' = HeldNames \ {n}
                     /\ rec[workers[n]].status \in Terminal
       /\ (margs.op = "run" /\ margs.sid # 0 /\ mpc' = "idle" /\ ~ret'.value)
          => workers'[margs.name] # margs.sid]_vars

\* C29: every change of the status of an existing record goes from running
\* to completed, killed or dead, and no record has the status pending or
\* failed.
C29_StatusEdges ==
    [][\A s \in Sids :
         /\ rec'[s].status \notin {"pending", "failed"}
         /\ (rec[s].status # "absent" /\ rec'[s].status # rec[s].status)
            => (rec[s].status = "running" /\ rec'[s].status \in Terminal)]_vars

\* C30: when the monitor (Runner's sweep, WorkerManager's watcher) marks a
\* record whose process has exited, the record is running and becomes
\* completed if the monitor had found the process alive before, and dead
\* if the process was already gone at the monitor's first look.
C30_MonitorCompletedOrDead ==
    [][/\ (impl = "runner" /\ spc = "mark" /\ spc' = "time")
          => LET s == Head(squeue)[2]
             IN  /\ rec[s].status = "running"
                 /\ rec'[s].status = IF s \in seenAlive THEN "completed" ELSE "dead"
       /\ \A w \in Sids :
            (impl = "minimal" /\ wpc[w] = "handle" /\ wpc'[w] = "time")
            => LET s == wref'[w]
               IN  /\ rec[s].status = "running"
                   /\ rec'[s].status = IF s \in seenAlive THEN "completed" ELSE "dead"]_vars

\* C23: a step that writes the registry file ends the same way whether the
\* write succeeds or fails: spawn returns True (and WorkerManager's watcher
\* is started), kill returns True and leaves the status it wrote, cleanup
\* returns, the sweep pass ends; nothing is raised and the registry in
\* memory is left as it is.
C23_SaveFailureHarmless ==
    [][/\ (mpc \in {"run_save", "kill_save", "cleanup_save"} /\ mpc' # mpc)
          => /\ rec' = rec /\ workers' = workers
             /\ IF mpc = "run_save" /\ ~margs.background
                THEN mpc' = "run_complete"
                ELSE mpc' = "idle" /\ ~ret'.raised /\ ret'.value
             /\ (impl = "minimal" /\ mpc = "run_save") => wpc'[margs.sid] = "start"
       /\ (spc = "save" /\ spc' # spc) => (spc' = "start" /\ rec' = rec)
       /\ \A s \in Sids :
            (WatcherAt(s, "save") /\ wpc'[s] # wpc[s]) => (wpc'[s] = "done" /\ rec' = rec)]_vars

\* C24: when no operation is under way in Runner (the caller has returned,
\* the sweep pass has ended, by a return or by an exception), the
\* registry file holds the registry as it is in memory.
C24_PersistedAfterReturn ==
    (impl = "runner" /\ mpc = "idle" /\ spc \in {"start", "crashed"}) => file = Snapshot

\* C25: a thread that has written a part of a change to the registry (a
\* monitor that has set a status and not yet the end time and the file)
\* excludes the caller from the registry: no spawn, kill or cleanup is
\* between its own first write and its save, and list_workers is not
\* reading.
C25_MutationsExclusive ==
    ~ /\ mpc \in {"run_save", "kill_time", "kill_save", "cleanup_del", "cleanup_save", "list"}
      /\ \/ spc \in {"time", "handle"}
         \/ \E s \in Sids : wpc[s] \in {"time", "notify", "save"}

\* the file holds JSON that is not a mapping from names to records
NotARegistry(f) ==
    /\ f.state = "json"
    /\ f.value.type # "dict" \/ \E n \in Names : f.value.entries[n] = "number"

\* C22: a Runner built from a registry file that is missing, unreadable,
\* not JSON, or JSON that is not a mapping from names to records has an
\* empty registry; its monitor thread keeps running and the command run on
\* it ends without an exception.
C22_LoadYieldsEmptyRegistry ==
    (registry_file.state \in {"missing", "unreadable", "malformed"} \/ NotARegistry(registry_file))
    => /\ cli.pc = "ready" => cli_workers = EmptyDict
       /\ cli.pc \in {"ran", "exited"} => ~cli.raised
       /\ cli.monitor # "crashed"

\* C26: the process exits with code 0 exactly when the operation succeeded
\* for spawn, kill and test-notify, and with code 0 for list, cleanup and
\* status whatever the registry file holds.
C26_ExitCodes ==
    cli.pc = "exited"
    => IF cli.command \in {"spawn", "kill", "test-notify"}
       THEN (cli.exit_code = 0) = cli.success
       ELSE cli.exit_code = 0

\* C32: over the lifetime of a record at most one SIGTERM is delivered to
\* its process group, only the signalling step of kill delivers one, and
\* the steps of kill after the signal never wait for the process: they
\* leave the process table alone and kill returns success whether or not
\* the process has exited.
C32_OneSigtermNoWait ==
    [][/\ \A p \in Sids : sigterms'[p] <= 1
       /\ sigterms' # sigterms
            => /\ mpc = "kill_signal"
               /\ \A p \in Sids : sigterms'[p] # sigterms[p] => p = rec[margs.sid].pid
       /\ (mpc \in {"kill_signal", "kill_mark", "kill_time", "kill_save"} /\ mpc' # mpc)
            => procs' = procs
       /\ (impl = "runner" /\ mpc = "kill_save" /\ mpc' # mpc)
            => mpc' = "idle" /\ ret'.value = TRUE]_vars

\* A kill has returned success after its one SIGTERM while the process it
\* signalled is still alive.
C32_Witness ==
    /\ mpc = "idle" /\ ret.op = "kill" /\ ret.value = TRUE
    /\ workers[ret.name] # 0
    /\ rec[workers[ret.name]].status = "killed"
    /\ procs[rec[workers[ret.name]].pid] = "alive"
    /\ sigterms[rec[workers[ret.name]].pid] = 1

\* C38: a cleanup_completed called right after another, with no spawn, no
\* kill and no exit detected since the first one looked at the registry,
\* removes nothing, returns 0, and leaves the registry in memory and the
\* registry file as the first call left them.
C38_CleanupIdempotent ==
    first.calls = 1 =>
        /\ workers = first.workers
        /\ order = first.order
        /\ rec = first.rec
        /\ file = first.file
        /\ to_remove = <<>>
        /\ mpc = "idle" => (ret.op = "cleanup" /\ ~ret.raised /\ ret.count = 0)

\* The second cleanup has returned after a first one that removed records
\* and left a running one.
C38_Witness ==
    /\ first.calls = 1 /\ first.count > 0
    /\ mpc = "idle" /\ ret.op = "cleanup"
    /\ \E n \in Names : workers[n] # 0 /\ rec[workers[n]].status = "running"

\* C34: in WorkerManager the watcher of a worker runs the completion
\* handler once for the exit of its process, whether waitpid returned or
\* raised and whether or not the handler's save_workers failed, so that no
\* record has more than one completion notification dispatched for it.
C34_WatcherHandlesOnce ==
    impl = "minimal" =>
        /\ \A s \in Sids : wpc[s] \notin {Retry[q] : q \in DOMAIN Retry}
        /\ \A s \in Sids : Len(notified[s]) <= 1

\* C35: when the supervising process has stopped and a new Runner has been
\* built from the registry file, no completion notification is dispatched
\* for a record that already had one: what the file holds for a notified
\* record is its terminal status, never running.
C35_NotifiedOnceAcrossRestart ==
    [][\A s \in Sids :
         /\ (boots' # boots /\ notified[s] # <<>>) => rec'[s].status # "running"
         /\ (boots > 1 /\ notified'[s] # notified[s]) => notified[s] = <<>>]_vars

\* C36: with the supervisor and check-completion.py both working on the
\* same registry file, no write of the file drops a record the file held
\* and no write turns the terminal status of a record the file held back
\* to running.
C36_PersistedNeverReverted ==
    [][\A n \in Names :
         /\ file[n] # NoRec => file'[n] # NoRec
         /\ (file[n].status \in Terminal /\ file'[n].session_id = file[n].session_id)
              => file'[n].status \in Terminal]_vars

\* C37: a step that moves a record from running to completed, in the
\* registry of the supervisor (sweep, watcher) or in the file (by
\* check-completion.py), is taken only when the process of the record
\* is not alive.
C37_CompletedOnlyWhenExited ==
    [][/\ \A s \in Sids :
            (rec[s].status = "running" /\ rec'[s].status = "completed" /\ boots' = boots)
                => procs[rec[s].pid] # "alive"
       /\ \A n \in Names :
            (file[n].status = "running" /\ file'[n].status = "completed"
                /\ file'[n].session_id = file[n].session_id)
                => procs[file[n].pid] # "alive"]_vars

\* C33: a completion handling of the sweep, whatever the summary and the
\* outcome of the send, leaves the monitor thread inside its pass: the
\* thread goes on with the next record of the snapshot, so that the pass
\* reaches its save and later passes detect the exits of other workers.
C33_SweepSurvivesHandling ==
    [][(spc = "handle" /\ spc' # spc) => spc' = "check"]_vars

\* C31: a background spawn that returns success has started the one
\* watcher thread of its worker, before returning: the detection of the
\* exit of that worker is the work of that thread, not of a poll loop over
\* all workers.
C31_SpawnStartsWatcher ==
    [][(mpc = "run_save" /\ margs.background /\ mpc' = "idle" /\ ret'.value = TRUE)
        => /\ wpc[margs.sid] = "none"
           /\ wpc'[margs.sid] = "start"]_vars

RunnerNext ==
    \/ Runner_run_check
    \/ Runner_run_launch
    \/ Runner_run_store
    \/ Runner_run_save
    \/ Runner_run_complete
    \/ Runner_kill_worker_check
    \/ Runner_kill_worker_signal
    \/ Runner_kill_worker_mark
    \/ Runner_kill_worker_time
    \/ Runner_kill_worker_save
    \/ Runner_cleanup_completed_scan
    \/ Runner_cleanup_completed_del
    \/ Runner_cleanup_completed_save
    \/ Runner_list_workers
    \/ Runner_check_worker_statuses_begin
    \/ Runner_check_worker_statuses_check
    \/ Runner_check_worker_statuses_probe
    \/ Runner_check_worker_statuses_mark
    \/ Runner_check_worker_statuses_time
    \/ Runner_check_worker_statuses_handle
    \/ Runner_check_worker_statuses_save

WorkerManagerNext ==
    \/ WorkerManager_spawn_worker_check
    \/ WorkerManager_spawn_worker_launch
    \/ WorkerManager_spawn_worker_store
    \/ WorkerManager_spawn_worker_save
    \/ \E s \in Sids : WorkerManager_monitor_worker_start(s)
    \/ \E s \in Sids : WorkerManager_monitor_worker_wait(s)
    \/ \E s \in Sids : WorkerManager_handle_completion_mark(s)
    \/ \E s \in Sids : WorkerManager_handle_completion_time(s)
    \/ \E s \in Sids : WorkerManager_handle_completion_notify(s)
    \/ \E s \in Sids : WorkerManager_handle_completion_save(s)
    \/ WorkerManager_kill_worker_check
    \/ WorkerManager_kill_worker_signal
    \/ WorkerManager_kill_worker_mark
    \/ WorkerManager_kill_worker_save
    \/ WorkerManager_cleanup_dead_scan
    \/ WorkerManager_cleanup_dead_del
    \/ WorkerManager_cleanup_dead_save
    \/ WorkerManager_list_workers

Next ==
    \/ \E n \in Names, bg \in BOOLEAN : Call_run(n, bg)
    \/ \E n \in Names : Call_kill(n)
    \/ Call_cleanup
    \/ Call_list
    \/ \E p \in Sids : Proc_exit(p)
    \/ RunnerNext
    \/ WorkerManagerNext

Spec == Init /\ [][Next]_vars

\* The same programs on storage where a write of the registry file may
\* fail.  The supervisor has already used all but one of its session ids on
\* spawns whose launch failed.
FaultInit ==
    /\ BaseInit
    /\ storage = "flaky"
    /\ nextSid = MaxSpawns - 1
    /\ ret = [op |-> "run", name |-> "t1", value |-> FALSE, count |-> 0, raised |-> FALSE]
    /\ log_file = NoLog
    /\ summary = NoSummary
    /\ clean_summary = <<>>
    /\ xpc = "off"
    /\ CliOff

FaultSpec == FaultInit /\ [][Next]_vars

\* One run of the command line, on any registry file, with any command.
CliInit ==
    /\ LifeInit
    /\ impl = "runner"
    /\ log_file = NoLog
    /\ summary = NoSummary
    /\ clean_summary = <<>>
    /\ xpc = "off"
    /\ registry_file \in RegistryFiles
    /\ cli_workers = EmptyDict
    /\ cli \in Commands

CliNext ==
    \/ Blaude_init
    \/ Runner_monitor_loop
    \/ Main_spawn
    \/ Main_kill
    \/ Main_list
    \/ Main_cleanup
    \/ Main_status
    \/ Main_test_notify
    \/ Main_exit

CliSpec == CliInit /\ [][CliNext]_vars

\* A Runner that has a worker's transcript to summarise: any state of the
\* log file.
SummaryInit ==
    /\ LifeInit
    /\ impl = "runner"
    /\ log_file \in LogFiles
    /\ summary = NoSummary
    /\ clean_summary = <<>>
    /\ xpc = "idle"
    /\ CliOff

SummaryNext ==
    \/ Runner_extract_summary
    \/ Notifier_format_completion_message

SummarySpec == SummaryInit /\ [][SummaryNext]_vars

\* A Runner with any registry its operations can leave (each name absent,
\* or held as a synchronous record, or as a background record in any status),
\* every exit already detected, and cleanup_completed called again and again
\* while the monitor thread sweeps.  The histories of the other properties
\* are not kept here.
Kinds == {"absent", "foreground", "running", "completed", "killed", "dead"}

SidOf == [n \in Names |-> IF n = "t1" THEN 1 ELSE 2]

HeldRecord(n, s, k) ==
    IF k = "absent" THEN NoRec
    ELSE IF k = "foreground" THEN NewRecord(n, s, FALSE, TargetOf[n])
    ELSE [NewRecord(n, s, TRUE, TargetOf[n]) EXCEPT !.status = k, !.end_time = (k \in Terminal)]

\* the process of a record: alive while running, possibly still alive
\* after the SIGTERM of a kill, gone otherwise
ProcStates(k) ==
    CASE k = "running" -> {"alive"}
      [] k = "killed" -> {"alive", "gone"}
      [] k \in {"completed", "dead"} -> {"gone"}
      [] OTHER -> {"none"}

RepeatInit ==
    /\ impl = "runner"
    /\ storage \in {"writable", "flaky"}
    /\ \E k \in [Names -> Kinds] :
          /\ workers = [n \in Names |-> IF k[n] = "absent" THEN 0 ELSE SidOf[n]]
          /\ rec = [s \in Sids |->
                      IF \E n \in Names : SidOf[n] = s
                      THEN LET n == CHOOSE m \in Names : SidOf[m] = s
                           IN  HeldRecord(n, s, k[n])
                      ELSE NoRec]
          /\ procs \in {f \in [Sids -> {"none", "alive", "gone"}] :
                          \A s \in Sids :
                              IF \E n \in Names : SidOf[n] = s
                              THEN f[s] \in ProcStates(k[CHOOSE m \in Names : SidOf[m] = s])
                              ELSE f[s] = "none"}
          /\ order \in {o \in {<<>>, <<"t1">>, <<"t2">>, <<"t1", "t2">>, <<"t2", "t1">>} :
                          /\ {o[i] : i \in 1..Len(o)} = {n \in Names : k[n] # "absent"}}
    /\ file \in {Snapshot} \cup (IF storage = "flaky" THEN {[n \in Names |-> NoRec]} ELSE {})
    /\ sigterms = [p \in Sids |-> 0]
    /\ notified = [s \in Sids |-> <<>>]
    /\ lastSend = "none"
    /\ nextSid = MaxSpawns
    /\ mpc = "idle"
    /\ margs = NoArgs
    /\ to_remove = <<>>
    /\ ret = NoRet
    /\ spc = "start"
    /\ squeue = <<>>
    /\ updated = FALSE
    /\ wpc = [s \in Sids |-> "none"]
    /\ wref = [s \in Sids |-> 0]
    /\ examined = {}
    /\ exitSeen = {}
    /\ killSeen = {}
    /\ killedFirst = {}
    /\ scanned = NoScan
    /\ seenAlive = {}
    /\ first = NoFirst
    /\ boots = 1
    /\ foreign = {}
    /\ log_file = NoLog
    /\ summary = NoSummary
    /\ clean_summary = <<>>
    /\ xpc = "off"
    /\ CliOff

RepeatNext ==
    \/ Call_cleanup
    \/ Call_cleanup_again
    \/ Runner_cleanup_completed_scan
    \/ Runner_cleanup_completed_del
    \/ Runner_cleanup_completed_save
    \/ Runner_check_worker_statuses_begin
    \/ Runner_check_worker_statuses_check
    \/ Runner_check_worker_statuses_probe
    \/ Runner_check_worker_statuses_save

RepeatSpec == RepeatInit /\ [][RepeatNext]_vars

\* One host: a Runner that spawns background workers, may stop at any point
\* and be started again from the registry file, and check-completion.py
\* run next to it.
HostInit ==
    /\ LifeInit
    /\ impl = "runner"
    /\ log_file = NoLog
    /\ summary = NoSummary
    /\ clean_summary = <<>>
    /\ xpc = "off"
    /\ CliOff

HostNext ==
    \/ \E n \in Names : Call_run(n, TRUE)
    \/ Runner_run_check
    \/ Runner_run_launch
    \/ Runner_run_store
    \/ Runner_run_save
    \/ \E p \in Sids : Proc_exit(p)
    \/ Runner_check_worker_statuses_begin
    \/ Runner_check_worker_statuses_check
    \/ Runner_check_worker_statuses_probe
    \/ Runner_check_worker_statuses_mark
    \/ Runner_check_worker_statuses_time
    \/ Runner_check_worker_statuses_handle
    \/ Runner_check_worker_statuses_save
    \/ Runner_init
    \/ Check_and_fix_workers

HostSpec == HostInit /\ [][HostNext]_vars
====
